---- MODULE Spec2Model ----
(***************************************************************************)
(* Knowledge retrieval pipeline of AtlasV0.2.                              *)
(*                                                                         *)
(*   - src/app/api/knowledgebase/route.ts : GET, retrieveContext,          *)
(*     sendUpdate (the retrieval session and its event stream)             *)
(*   - src/lib/service/openai.ts : embedMessage, embedDocument,            *)
(*     embedChunk (the embedding calls, the Bottleneck limiter, the        *)
(*     per-chunk AbortController timer)                                    *)
(*                                                                         *)
(* JavaScript runs one callback at a time, so the code between two awaits  *)
(* is one atomic action of the model.                                      *)
(***************************************************************************)
EXTENDS Integers, Sequences, FiniteSets, TLC

(***************************************************************************)
(* Bounds of the model.                                                    *)
(***************************************************************************)
\* number of concurrent retrieval requests
NSessions == 2
\* number of chunks of a document
NChunks == 4
\* the clock stops here
MaxTime == 6
\* the most points the store holds
MaxPoints == 3

(***************************************************************************)
(* Program constants, scaled.  One tick of the clock is the limiter's      *)
(* minTime (12 ms).  The source's limiter has a reservoir of 5000 refilled *)
(* every 60000 ms = 5000 ticks and runs 50 jobs concurrently; the timer of *)
(* a chunk is 15000 ms = 1250 ticks.  The scaled values keep the relations *)
(*     reservoir * minTime = refresh interval,                             *)
(*     minTime < timeout < refresh interval,                               *)
(*     maxConcurrent < reservoir,  maxConcurrent * minTime <= timeout.     *)
(***************************************************************************)
Reservoir == 3
RefreshInterval == 3
MinTime == 1
MaxConcurrent == 2
ChunkTimeout == 2

Sessions == 1..NSessions
\* the embedDocument runs.  Each run constructs its own limiter, so runs share
\* no state; one run is modelled.
Docs == {"d1"}
Chunks == 1..NChunks

\* inputs of a retrieval request
Messages == {"m1", "m2"}
\* settings.forge.vectorizationProvider
Providers == {"pinecone", "qdrant"}
\* messages of the errors a collaborator can throw
ErrorMessages == {"provider error"}
\* passages a query can return (queryResults.context)
Contexts == {<<>>, <<"p1">>, <<"p1", "p2">>}

\* the users
Users == {"u1"}

\* Strings that the code takes apart or puts together are sequences of
\* character codes: "rép" is <<114, 233, 112>>.
\* the files (KnowledgebaseFile: name, key, url) a document can be; FileA has a
\* name with a non-ASCII character, FileC is FileA under another url
FileA == [name |-> <<114, 233, 112>>, key |-> <<107, 49>>, url |-> "https://a"]
FileB == [name |-> <<114, 112>>, key |-> <<107, 50>>, url |-> "https://b"]
FileC == [name |-> <<114, 233, 112>>, key |-> <<107, 49>>, url |-> "https://c"]
Files == {FileA, FileB, FileC}
\* no file (before embedDocument is called)
NoFile == [name |-> <<>>, key |-> <<>>, url |-> ""]

\* JavaScript values of a chunk's metadata, tagged with what typeof and
\* Array.isArray tell of them
Prim(v) == [kind |-> "primitive", value |-> v]
Obj(entries) == [kind |-> "object", entries |-> entries]
Arr(items) == [kind |-> "array", items |-> items]

\* metadata as the parser delivers it: primitives, a nested object, an array
MetadataParsed ==
    [page_number |-> Prim(3),
     filetype |-> Prim("pdf"),
     languages |-> Arr(<<Prim("eng")>>),
     coordinates |-> Obj(<< <<"system", Prim("px")>>,
                            <<"box", Obj(<< <<"w", Prim(10)>> >>)>> >>)]

\* metadata that has keys of the names embedChunk sets itself, and no page
MetadataClash ==
    [text |-> Prim(<<"other text">>),
     userId |-> Prim("intruder"),
     url |-> Prim("https://other"),
     citation |-> Prim(<<"other citation">>),
     filetype |-> Prim("txt")]

\* the chunk (ParsedElement: text, metadata) at 0-based position index
ChunkInput(index) ==
    [text |-> <<"text of chunk", index>>,
     metadata |-> IF index % 2 = 0 THEN MetadataParsed ELSE MetadataClash]

VARIABLES
    \* ---- retrieval session (route.ts) ----
    pc,          \* position of each request handler
    reqUserId,   \* the userId of the request ("": the parameter is missing)
    message,     \* the message of the request ("": the parameter is missing)
    calls,       \* the collaborators the handler has called, in order
    response,    \* what GET returned: "none", "400", "500" or "stream"
    events,      \* what was enqueued on the stream's controller, in order
    promise,     \* the promise of retrieveContext: "none", "pending", "resolved", "rejected"
    stream,      \* "none", "open", "closed", "errored"
    closeCalls,  \* number of controller.close() calls
    failedAt,    \* the stage whose await threw ("none" when none did)
    failure,     \* the message of that error
    context,     \* queryResults.context
    provider,    \* settings.forge.vectorizationProvider of the user
    msgStart,    \* the time at which embedMessage called the embedding provider
    rerankCalls, \* the arguments of every call of rerank, in order
    \* ---- embedding service (openai.ts) ----
    now,         \* the clock, in ticks
    docPc,       \* position of each embedDocument run: "idle", "running", "returned", "threw"
    nChunks,     \* chunks.length of the run
    chunk,       \* state of each scheduled embedChunk job:
                 \* "none", "queued", "running", "fulfilled", "rejected"
    reason,      \* the name of the error a rejected job threw
    deadline,    \* when the job's setTimeout fires (-1: no timer pending)
    reservoir,   \* the limiter's reservoir
    lastRefresh, \* when the limiter's reservoir was last refilled (or created)
    nextRequest, \* the earliest time of the limiter's next dispatch
    dispatchLog, \* the times at which the limiter dispatched a job, in order
    returned,    \* the value embedDocument returned: the chunk indexes of successfulEmbeddings
    docUser,     \* the userId embedDocument was called with
    docFile,     \* the file embedDocument was called with
    chunkIdList, \* the ids embedChunk pushed, in the order the calls completed
    errorLog,    \* the records written with logger.error, in order
    \* ---- vector store (qdrant.ts) ----
    points,      \* the points of the collection
    nextUuid,    \* the number of ids uuidv4() has handed out
    lastOp       \* the last call of upsertDocument or deleteFromVectorDb and how it ended

sessionVars == <<pc, reqUserId, calls, message, response, events, promise, stream, closeCalls,
                 failedAt, failure, context, provider, msgStart, rerankCalls>>
embedVars == <<docPc, nChunks, chunk, reason, deadline, reservoir, lastRefresh,
               nextRequest, dispatchLog, returned, docUser, docFile, chunkIdList,
               errorLog>>
storeVars == <<points, nextUuid, lastOp>>
vars == <<sessionVars, now, embedVars, storeVars,
                   reqUserId, calls>>

(***************************************************************************)
(* route.ts                                                                *)
(***************************************************************************)
\* a sendUpdate that puts the event in front of the queue
sendUpdate_Prepend(evs, status, msg) == <<[status |-> status, message |-> msg]>> \o evs

\* sendUpdate: JSON.stringify({status, message}) enqueued on the controller
sendUpdate(evs, status, msg) == Append(evs, [status |-> status, message |-> msg])

\* a catch block that drops the error's message
CatchBlock_NoMessage(evs, e) == sendUpdate(evs, "Error", <<"Error retrieving context: ", "">>)

\* the catch block of retrieveContext
CatchBlock(evs, e) == sendUpdate(evs, "Error", <<"Error retrieving context: ", e>>)

\* a retrieveContext without its finally block
FinallyBlock_Missing(evs, m) == evs

\* the finally block of retrieveContext
FinallyBlock(evs, m) == sendUpdate(evs, "Done", <<"Processing complete for: ", m>>)

\* a catch block that rethrows
AfterCatch_Rethrow == "rejected"

\* the state of retrieveContext's promise once catch and finally have run: the
\* catch block does not rethrow
AfterCatch == "resolved"

\* a test that lets a request without message pass
MissingInput_UserOnly(u, m) == u = ""

\* !userId || !message
MissingInput(u, m) == u = "" \/ m = ""

\* one controller, of the module, that every request enqueues on
Controller_Shared(s) == 1

\* the controller that the retrieveContext call of request s enqueues on: the
\* one that start(controller) of the stream of this request handed to it
Controller(s) == s

\* GET with the parameters userId = u and message = m, up to
\* `await validateUser`, or the 400 answer
GET(s, u, m) ==
    /\ pc[s] = "idle"
    /\ reqUserId' = [reqUserId EXCEPT ![s] = u]
    /\ message' = [message EXCEPT ![s] = m]
    /\ IF MissingInput(u, m)
       THEN /\ response' = [response EXCEPT ![s] = "400"]
            /\ pc' = [pc EXCEPT ![s] = "answered"]
            /\ UNCHANGED calls
       ELSE /\ calls' = [calls EXCEPT ![s] = Append(@, "validateUser")]
            /\ pc' = [pc EXCEPT ![s] = "validating"]
            /\ UNCHANGED response
    /\ UNCHANGED <<events, promise, stream, closeCalls, failedAt, failure, context,
                   provider, msgStart, rerankCalls, now, embedVars, storeVars>>

\* validateUser threw: handleErrorResponse
ValidateUserFail(s, e) ==
    /\ pc[s] = "validating"
    /\ response' = [response EXCEPT ![s] = IF e \in {"Invalid user", "Invalid file IDs"}
                                            THEN "400" ELSE "500"]
    /\ pc' = [pc EXCEPT ![s] = "answered"]
    /\ UNCHANGED <<message, events, promise, stream, closeCalls, failedAt, failure,
                   context, provider, msgStart, rerankCalls, now, embedVars, storeVars,
                   reqUserId, calls>>

\* validateUser returned: the stream is created, start(controller) calls
\* retrieveContext, which runs up to `await embedMessage`
ValidateUserOk(s) ==
    /\ pc[s] = "validating"
    /\ msgStart' = [msgStart EXCEPT ![s] = now]
    /\ response' = [response EXCEPT ![s] = "stream"]
    /\ stream' = [stream EXCEPT ![s] = "open"]
    /\ promise' = [promise EXCEPT ![s] = "pending"]
    /\ events' = [events EXCEPT ![Controller(s)] = sendUpdate(@, "Retrieving context", <<message[s]>>)]
    /\ pc' = [pc EXCEPT ![s] = "embedding"]
    /\ calls' = [calls EXCEPT ![s] = Append(@, "embedMessage")]
    /\ UNCHANGED <<message, closeCalls, failedAt, failure, context, provider,
                   rerankCalls, now, embedVars, storeVars, reqUserId>>

\* an awaited stage of retrieveContext threw e: catch, then finally
StageFails(s, stage, e) ==
    /\ pc[s] = stage
    /\ events' = [events EXCEPT ![Controller(s)] = FinallyBlock(CatchBlock(@, e), message[s])]
    /\ promise' = [promise EXCEPT ![s] = AfterCatch]
    /\ failedAt' = [failedAt EXCEPT ![s] = stage]
    /\ failure' = [failure EXCEPT ![s] = e]
    /\ pc' = [pc EXCEPT ![s] = "settled"]
    /\ UNCHANGED <<message, response, stream, closeCalls, context, provider,
                   msgStart, rerankCalls, now, embedVars, storeVars,
                   reqUserId, calls>>

\* embedMessage: the provider answered, the embedding is returned; then
\* 'Embedding complete' and the call of getVectorDbProvider
EmbedMessageOk(s) ==
    /\ pc[s] = "embedding"
    /\ events' = [events EXCEPT ![Controller(s)] =
                     sendUpdate(@, "Embedding complete",
                                <<"Message embedding complete for: ", message[s]>>)]
    /\ pc' = [pc EXCEPT ![s] = "resolving"]
    /\ calls' = [calls EXCEPT ![s] = Append(@, "getVectorDbProvider")]
    /\ UNCHANGED <<message, response, promise, stream, closeCalls, failedAt, failure,
                   context, provider, msgStart, rerankCalls, now, embedVars, storeVars,
                   reqUserId>>

\* embedMessage: openai.embeddings.create threw; embedMessage logs and rethrows
EmbedMessageFail(s, e) == StageFails(s, "embedding", e)

\* getVectorDbProvider returned the provider p that the user's settings
\* name; its query is called
ProviderResolved(s, p) ==
    /\ pc[s] = "resolving"
    /\ provider' = [provider EXCEPT ![s] = p]
    /\ pc' = [pc EXCEPT ![s] = "querying"]
    /\ calls' = [calls EXCEPT ![s] = Append(@, "query")]
    /\ UNCHANGED <<message, response, events, promise, stream, closeCalls, failedAt,
                   failure, context, msgStart, rerankCalls, now, embedVars, storeVars,
                   reqUserId>>

\* getVectorDbProvider threw
ProviderFails(s, e) == StageFails(s, "resolving", e)

\* the error thrown by the query of the Qdrant provider
NotImplemented == "query function is not implemented"

\* a Qdrant provider whose query returns
QueryImplemented_All(p) == TRUE

\* can the query of provider p return a result?
QueryImplemented(p) == p # "qdrant"

\* a call that hands over the first passage only
RerankArgs_FirstOnly(m, ctx) == [message |-> m, context |-> SubSeq(ctx, 1, 1)]

\* the arguments of rerank(message, queryResults.context, settings.knowledgebase)
RerankArgs(m, ctx) == [message |-> m, context |-> ctx]

\* a test that sends every result to rerank
HasContext_Always(ctx) == Len(ctx) >= 0

\* queryResults.context.length > 0
HasContext(ctx) == Len(ctx) > 0

\* vectorDbProvider.query returned ctx: 'Query complete', then either the call
\* of rerank or 'No context' and the finally block
QueryReturns(s, ctx) ==
    /\ pc[s] = "querying"
    /\ QueryImplemented(provider[s])
    /\ context' = [context EXCEPT ![s] = ctx]
    /\ LET evs == sendUpdate(events[Controller(s)], "Query complete",
                             <<"Query results retrieved from Pinecone.">>)
       IN IF HasContext(ctx)
          THEN /\ events' = [events EXCEPT ![Controller(s)] = evs]
               /\ rerankCalls' = [rerankCalls EXCEPT ![s] =
                                    Append(@, RerankArgs(message[s], ctx))]
               /\ pc' = [pc EXCEPT ![s] = "reranking"]
               /\ UNCHANGED promise
          ELSE /\ events' = [events EXCEPT ![Controller(s)] =
                                FinallyBlock(sendUpdate(evs, "No context",
                                                 <<"No context found for the message.">>),
                                             message[s])]
               /\ promise' = [promise EXCEPT ![s] = "resolved"]
               /\ pc' = [pc EXCEPT ![s] = "settled"]
               /\ UNCHANGED rerankCalls
    /\ UNCHANGED <<message, response, stream, closeCalls, failedAt, failure,
                   provider, msgStart, now, embedVars, storeVars,
                   reqUserId, calls>>

\* vectorDbProvider.query threw
QueryFails(s, e) ==
    /\ IF QueryImplemented(provider[s]) THEN e \in ErrorMessages ELSE e = NotImplemented
    /\ StageFails(s, "querying", e)

\* rerank returned the formatted context: 'Reranking complete', then finally
RerankReturns(s) ==
    /\ pc[s] = "reranking"
    /\ events' = [events EXCEPT ![Controller(s)] =
                     FinallyBlock(sendUpdate(@, "Reranking complete",
                                             <<"reranked", context[s]>>),
                                  message[s])]
    /\ promise' = [promise EXCEPT ![s] = "resolved"]
    /\ pc' = [pc EXCEPT ![s] = "settled"]
    /\ UNCHANGED <<message, response, stream, closeCalls, failedAt, failure,
                   context, provider, msgStart, rerankCalls, now, embedVars, storeVars,
                   reqUserId, calls>>

\* rerank threw
RerankFails(s, e) == StageFails(s, "reranking", e)

\* a promise without the .then callback: a resolved promise leaves the stream open
StreamAfter_NoThen(p) == IF p = "resolved" THEN "open" ELSE "errored"

\* what the callbacks make of the stream:
\* .then(() => controller.close()).catch((err) => controller.error(err))
StreamAfter(p) == IF p = "resolved" THEN "closed" ELSE "errored"

\* the callbacks on retrieveContext's promise run
SettleStream(s) ==
    /\ pc[s] = "settled"
    /\ stream' = [stream EXCEPT ![s] = StreamAfter(promise[s])]
    /\ closeCalls' = [closeCalls EXCEPT ![s] =
                         IF StreamAfter(promise[s]) = "closed" THEN @ + 1 ELSE @]
    /\ pc' = [pc EXCEPT ![s] = "finished"]
    /\ UNCHANGED <<message, response, events, promise, failedAt, failure,
                   context, provider, msgStart, rerankCalls, now, embedVars, storeVars,
                   reqUserId, calls>>

InitSessions ==
    /\ pc = [s \in Sessions |-> "idle"]
    /\ reqUserId = [s \in Sessions |-> ""]
    /\ message = [s \in Sessions |-> ""]
    /\ calls = [s \in Sessions |-> <<>>]
    /\ response = [s \in Sessions |-> "none"]
    /\ events = [s \in Sessions |-> <<>>]
    /\ promise = [s \in Sessions |-> "none"]
    /\ stream = [s \in Sessions |-> "none"]
    /\ closeCalls = [s \in Sessions |-> 0]
    /\ failedAt = [s \in Sessions |-> "none"]
    /\ failure = [s \in Sessions |-> ""]
    /\ context = [s \in Sessions |-> <<>>]
    /\ provider = [s \in Sessions |-> "none"]
    /\ msgStart = [s \in Sessions |-> 0]
    /\ rerankCalls = [s \in Sessions |-> <<>>]

(***************************************************************************)
(* openai.ts: embedDocument, its limiter and embedChunk                    *)
(***************************************************************************)
\* ---- what embedChunk computes (openai.ts, part_001) ----

\* /[^\x00-\x7F]/ does not match character c
IsAsciiChar(c) == c <= 127

\* str.replace(/[^\x00-\x7F]/g, '')
toAscii(str) == SelectSeq(str, IsAsciiChar)

\* the decimal digits of n, as a template literal prints a number
RECURSIVE Digits(_)
Digits(n) == IF n < 10 THEN <<48 + n>> ELSE Digits(n \div 10) \o <<48 + (n % 10)>>

\* the id without the chunk's position
NewId_NoIndex(file, index) == toAscii(file.name) \o <<35>> \o file.key \o <<35>>

\* `${toAscii(file.name)}#${file.key}#${index + 1}`
NewId(file, index) ==
    toAscii(file.name) \o <<35>> \o file.key \o <<35>> \o Digits(index + 1)

\* Object.entries(value) of an object or an array (an array's keys are its
\* positions from 0)
ObjectEntries(value) ==
    IF value.kind = "array"
    THEN [k \in 1..Len(value.items) |-> <<k - 1, value.items[k]>>]
    ELSE value.entries

\* the string `${k}:${JSON.stringify(v)}`
EntryString(e) == Prim(<<e[1], ":", <<"JSON", e[2]>>>>)

\* a transformation that keeps every value as it is
transformObjectValues_Keep(obj) == obj

\* transformObjectValues: a value that is an object (or an array) becomes the
\* array of the strings of its entries, any other value is kept
transformObjectValues(obj) ==
    [key \in DOMAIN obj |->
        IF obj[key].kind \in {"object", "array"}
        THEN Arr([k \in 1..Len(ObjectEntries(obj[key])) |->
                     EntryString(ObjectEntries(obj[key])[k])])
        ELSE obj[key]]

\* {...b, ...a}: the keys of the chunk's metadata win
Merge_FirstWins(a, b) ==
    [k \in DOMAIN a \cup DOMAIN b |-> IF k \in DOMAIN a THEN a[k] ELSE b[k]]

\* {...a, ...b}: the keys of b override those of a
Merge(a, b) ==
    [k \in DOMAIN a \cup DOMAIN b |-> IF k \in DOMAIN b THEN b[k] ELSE a[k]]

\* chunk.metadata.page_number ? `, Page ${chunk.metadata.page_number}` : ''
pageInfo(c) ==
    IF /\ "page_number" \in DOMAIN c.metadata
       /\ (c.metadata.page_number.kind = "primitive" => c.metadata.page_number.value # 0)
    THEN <<", Page ", c.metadata.page_number>>
    ELSE <<>>

\* `[${file.name}${pageInfo}](${file.url})`
citation(file, c) == <<"[", file.name, pageInfo(c), "](", file.url, ")">>

\* response.data[0].embedding of the request for a text
EmbeddingValues(text) == <<"embedding of", text>>

\* what embedChunk(chunk, index) returns when its request succeeds
embedChunk(userId, file, index) ==
    [id |-> NewId(file, index),
     values |-> EmbeddingValues(ChunkInput(index).text),
     metadata |-> Merge(transformObjectValues(ChunkInput(index).metadata),
                        [text |-> Prim(ChunkInput(index).text),
                         userId |-> Prim(userId),
                         url |-> Prim(file.url),
                         citation |-> Prim(citation(file, ChunkInput(index)))])]

\* the jobs of run d in a given state
InState(d, st) == {i \in Chunks : chunk[d][i] = st}

\* the embedChunk calls of run d that were dispatched and have not settled
InFlight(d) == InState(d, "running")

\* a limiter without minTime
SpacingElapsed_Always(d) == TRUE

\* minTime has elapsed since the limiter's previous dispatch
SpacingElapsed(d) == now >= nextRequest[d]

\* a limiter without maxConcurrent
CanDispatch_NoCeiling(d) == reservoir[d] > 0 /\ SpacingElapsed(d)

\* the limiter can run a job now: reservoir, maxConcurrent and minTime
CanDispatch(d) ==
    /\ reservoir[d] > 0
    /\ Cardinality(InFlight(d)) < MaxConcurrent
    /\ SpacingElapsed(d)

\* the first n entries of chunks whose job ended in state st, in index order
RECURSIVE Collect(_, _, _)
Collect(d, n, st) ==
    IF n = 0 THEN <<>>
    ELSE IF chunk[d][n] = st THEN Append(Collect(d, n - 1, st), n)
         ELSE Collect(d, n - 1, st)

\* a loop that logs nothing for a rejected result
FailureRecords_Silent(d) == <<>>

\* the records the loop over the results writes, one for every rejected result:
\* `Embedding failed for chunk ${i + 1}: ${result.reason.message}`
FailureRecords(d) ==
    LET rejected == Collect(d, nChunks[d], "rejected")
    IN [k \in 1..Len(rejected) |->
           <<"Embedding failed for chunk ", (rejected[k] - 1) + 1, ": ",
             reason[d][rejected[k]]>>]

\* results gathered as the calls complete
SuccessfulEmbeddings_AsCompleted(d) ==
    [k \in 1..Len(chunkIdList[d]) |->
        CHOOSE i \in Chunks : NewId(docFile[d], i - 1) = chunkIdList[d][k]]

\* the loop over the results of Promise.allSettled, which are in the order of
\* the chunks
SuccessfulEmbeddings(d) == Collect(d, nChunks[d], "fulfilled")

\* Promise.all in the place of Promise.allSettled: one rejection rejects the batch
BatchOutcome_PromiseAll(d) == IF InState(d, "rejected") # {} THEN "threw" ELSE "returned"

\* how the await of Promise.allSettled ends: it never rejects
BatchOutcome(d) == "returned"

\* embedDocument is called with n chunks: the limiter is created and every
\* chunk is scheduled on it
EmbedDocument(d, userId, file, n) ==
    /\ docPc[d] = "idle"
    /\ docPc' = [docPc EXCEPT ![d] = "running"]
    /\ docUser' = [docUser EXCEPT ![d] = userId]
    /\ docFile' = [docFile EXCEPT ![d] = file]
    /\ nChunks' = [nChunks EXCEPT ![d] = n]
    /\ chunk' = [chunk EXCEPT ![d] = [i \in Chunks |-> IF i <= n THEN "queued" ELSE "none"]]
    /\ reservoir' = [reservoir EXCEPT ![d] = Reservoir]
    /\ lastRefresh' = [lastRefresh EXCEPT ![d] = now]
    /\ nextRequest' = [nextRequest EXCEPT ![d] = now]
    /\ UNCHANGED <<sessionVars, storeVars, now, reason, deadline, dispatchLog, returned,
                   chunkIdList, errorLog>>

\* a timer armed when the chunks are scheduled (by the time of the first
\* dispatch of the run, which follows the scheduling at once)
TimerStart_Scheduled(d) == IF dispatchLog[d] = <<>> THEN now ELSE dispatchLog[d][1]

\* the time setTimeout is called at: in the body of embedChunk, which the
\* limiter runs when it dispatches the job
TimerStart(d) == now

\* the limiter runs its first queued job: embedChunk creates its
\* AbortController, arms its timer and calls the embedding provider
Dispatch(d) ==
    /\ docPc[d] = "running"
    /\ InState(d, "queued") # {}
    /\ CanDispatch(d)
    /\ LET i == CHOOSE j \in InState(d, "queued") :
                    \A k \in InState(d, "queued") : j <= k
       IN /\ chunk' = [chunk EXCEPT ![d][i] = "running"]
          /\ deadline' = [deadline EXCEPT ![d][i] = TimerStart(d) + ChunkTimeout]
    /\ reservoir' = [reservoir EXCEPT ![d] = @ - 1]
    /\ nextRequest' = [nextRequest EXCEPT ![d] = now + MinTime]
    /\ dispatchLog' = [dispatchLog EXCEPT ![d] = Append(@, now)]
    /\ UNCHANGED <<sessionVars, storeVars, now, docPc, nChunks, reason, lastRefresh, returned,
                   docUser, docFile, chunkIdList, errorLog>>

\* the provider answered chunk i (the chunk at index i - 1): clearTimeout, the
\* id is pushed on chunkIdList, the embedding is returned
ChunkSucceeds(d, i) ==
    /\ chunk[d][i] = "running"
    /\ chunk' = [chunk EXCEPT ![d][i] = "fulfilled"]
    /\ deadline' = [deadline EXCEPT ![d][i] = -1]
    /\ chunkIdList' = [chunkIdList EXCEPT ![d] = Append(@, NewId(docFile[d], i - 1))]
    /\ UNCHANGED <<sessionVars, storeVars, now, docPc, nChunks, reason, reservoir, lastRefresh,
                   nextRequest, dispatchLog, returned, docUser, docFile, errorLog>>

\* embedChunk's record of a request that was aborted by its timer:
\* `Embedding request for chunk ${index + 1} timed out.`
TimedOutRecord(index) == <<"Embedding request for chunk ", index + 1, " timed out.">>

\* embedChunk's record of a request that failed with message e:
\* `Failed to embed chunk ${index + 1} for file: ${file.name}. Error: ${message}`
FailedRecord(file, index, e) ==
    <<"Failed to embed chunk ", index + 1, " for file: ", file.name, ". Error: ", e>>

\* the records of the requests in the set S, by position
RECURSIVE TimedOutRecords(_)
TimedOutRecords(S) ==
    IF S = {} THEN <<>>
    ELSE LET i == CHOOSE j \in S : \A k \in S : j <= k
         IN <<TimedOutRecord(i - 1)>> \o TimedOutRecords(S \ {i})

\* the provider reported error e for chunk i: clearTimeout, log, rethrow
ChunkFails(d, i, e) ==
    /\ chunk[d][i] = "running"
    /\ chunk' = [chunk EXCEPT ![d][i] = "rejected"]
    /\ reason' = [reason EXCEPT ![d][i] = e]
    /\ deadline' = [deadline EXCEPT ![d][i] = -1]
    /\ errorLog' = [errorLog EXCEPT ![d] = Append(@, FailedRecord(docFile[d], i - 1, e))]
    /\ UNCHANGED <<sessionVars, storeVars, now, docPc, nChunks, reservoir, lastRefresh,
                   nextRequest, dispatchLog, returned, docUser, docFile, chunkIdList>>

\* one AbortController shared by the calls of the run
AbortedBy_Shared(d, i) == InFlight(d)

\* the requests that the AbortController of chunk i cancels: embedChunk creates
\* a controller of its own and passes its signal to its own request only
AbortedBy(d, i) == {i}

\* the timer of chunk i fires: controller.abort() cancels the request, which
\* throws AbortError; clearTimeout, log, rethrow
ChunkTimesOut(d, i) ==
    /\ chunk[d][i] = "running"
    /\ deadline[d][i] # -1
    /\ now >= deadline[d][i]
    /\ chunk' = [chunk EXCEPT ![d] =
                    [j \in Chunks |-> IF j \in AbortedBy(d, i) THEN "rejected" ELSE @[j]]]
    /\ reason' = [reason EXCEPT ![d] =
                     [j \in Chunks |-> IF j \in AbortedBy(d, i) THEN "AbortError" ELSE @[j]]]
    /\ deadline' = [deadline EXCEPT ![d] =
                       [j \in Chunks |-> IF j \in AbortedBy(d, i) THEN -1 ELSE @[j]]]
    /\ errorLog' = [errorLog EXCEPT ![d] = @ \o TimedOutRecords(AbortedBy(d, i))]
    /\ UNCHANGED <<sessionVars, storeVars, now, docPc, nChunks, reservoir, lastRefresh,
                   nextRequest, dispatchLog, returned, docUser, docFile, chunkIdList>>

\* the limiter's refresh timer: the reservoir is set to reservoirRefreshAmount
ReservoirRefresh(d) ==
    /\ docPc[d] = "running"
    /\ now >= lastRefresh[d] + RefreshInterval
    /\ reservoir' = [reservoir EXCEPT ![d] = Reservoir]
    /\ lastRefresh' = [lastRefresh EXCEPT ![d] = @ + RefreshInterval]
    /\ UNCHANGED <<sessionVars, storeVars, now, docPc, nChunks, chunk, reason, deadline,
                   nextRequest, dispatchLog, returned, docUser, docFile, chunkIdList,
                   errorLog>>

AllSettled_First(d) ==
    \E i \in Chunks : chunk[d][i] \in {"fulfilled", "rejected"}

\* Promise.allSettled over the scheduled jobs settles when every job has
\* settled, fulfilled or rejected
AllSettled(d) ==
    \A i \in Chunks : chunk[d][i] \in {"none", "fulfilled", "rejected"}

\* every job has settled: the loop over the results collects the fulfilled ones
\* and logs the rejected ones; the collected embeddings are returned
EmbedDocumentReturns(d) ==
    /\ docPc[d] = "running"
    /\ AllSettled(d)
    /\ docPc' = [docPc EXCEPT ![d] = BatchOutcome(d)]
    /\ returned' = [returned EXCEPT ![d] =
                       IF BatchOutcome(d) = "returned" THEN SuccessfulEmbeddings(d) ELSE @]
    /\ errorLog' = [errorLog EXCEPT ![d] = @ \o FailureRecords(d)]
    /\ UNCHANGED <<sessionVars, storeVars, now, nChunks, chunk, reason, deadline, reservoir,
                   lastRefresh, nextRequest, dispatchLog, docUser, docFile, chunkIdList>>

\* time passes, unless a timer is due
Tick ==
    /\ now < MaxTime
    /\ \A d \in Docs :
          /\ \A i \in Chunks : deadline[d][i] = -1 \/ now < deadline[d][i]
          /\ docPc[d] = "running" => now < lastRefresh[d] + RefreshInterval
    /\ now' = now + 1
    /\ UNCHANGED <<sessionVars, embedVars, storeVars>>

InitEmbed ==
    /\ now = 0
    /\ docPc = [d \in Docs |-> "idle"]
    /\ nChunks = [d \in Docs |-> 0]
    /\ chunk = [d \in Docs |-> [i \in Chunks |-> "none"]]
    /\ reason = [d \in Docs |-> [i \in Chunks |-> ""]]
    /\ deadline = [d \in Docs |-> [i \in Chunks |-> -1]]
    /\ reservoir = [d \in Docs |-> 0]
    /\ lastRefresh = [d \in Docs |-> 0]
    /\ nextRequest = [d \in Docs |-> 0]
    /\ dispatchLog = [d \in Docs |-> <<>>]
    /\ returned = [d \in Docs |-> <<>>]
    /\ docUser = [d \in Docs |-> "none"]
    /\ docFile = [d \in Docs |-> NoFile]
    /\ chunkIdList = [d \in Docs |-> <<>>]
    /\ errorLog = [d \in Docs |-> <<>>]

(***************************************************************************)
(* qdrant.ts: upsertDocument and deleteFromVectorDb                        *)
(***************************************************************************)
\* the increasing index lists embedDocument can return for a document of two
\* chunks
IndexLists == {<<>>, <<1>>, <<2>>, <<1, 2>>}

\* the embeddings embedDocument returns when the chunks numbered idxs succeeded
Embeddings(userId, file, idxs) ==
    [k \in 1..Len(idxs) |-> embedChunk(userId, file, idxs[k] - 1)]

\* the points upsertDocument prepares: uuidv4() gives every point an id that
\* was never handed out before
PointsOf(embeddings, uuid) ==
    {[id |-> uuid + k,
      payload |-> [embeddingId |-> embeddings[k].id,
                   metadata |-> embeddings[k].metadata],
      vector |-> embeddings[k].values] : k \in 1..Len(embeddings)}

\* client.upsert: a point replaces the stored point of the same id
ClientUpsert(store, pts) ==
    {p \in store : \A q \in pts : q.id # p.id} \cup pts

\* upsertDocument(userId, embeddings); ok: the client's request succeeds
UpsertDocument(userId, embeddings, ok) ==
    /\ Cardinality(points) + Len(embeddings) <= MaxPoints
    /\ IF ok
       THEN /\ points' = ClientUpsert(points, PointsOf(embeddings, nextUuid))
            /\ nextUuid' = nextUuid + Len(embeddings)
       ELSE UNCHANGED <<points, nextUuid>>
    /\ lastOp' = [op |-> "upsert",
                  arg |-> [n \in 1..Len(embeddings) |-> embeddings[n].id],
                  requests |-> <<"upsert">>,
                  outcome |-> IF ok THEN "returned" ELSE "threw",
                  value |-> IF ok THEN Len(embeddings) ELSE 0,
                  error |-> IF ok THEN "" ELSE "provider error"]
    /\ UNCHANGED <<sessionVars, now, embedVars>>

\* a check that lets every file pass
NoIdentifier_Never(file) == FALSE

\* !name && !url
NoIdentifier(file) == file.name = <<>> /\ file.url = ""

\* the error deleteFromVectorDb throws for a file without name and url
NoIdentifierError == "No filename or URL provided for deletion."

\* the filter of the delete request: both conditions are under `must`
\* (present: the value is not undefined or empty)
DeleteFilter(file) ==
    <<[key |-> "name", value |-> file.name, present |-> file.name # <<>>],
      [key |-> "url", value |-> file.url, present |-> file.url # ""]>>

\* point p satisfies every condition under `must`: the condition has a value,
\* the payload of p has the key, and the value there is the condition's value
MatchesFilter(p, must) ==
    \A k \in 1..Len(must) :
        /\ must[k].present
        /\ must[k].key \in DOMAIN p.payload
        /\ p.payload[must[k].key] = must[k].value

\* client.delete: the points that satisfy the filter are removed
ClientDelete(store, must) == {p \in store : ~MatchesFilter(p, must)}

\* deleteFromVectorDb(userId, file); ok: the client's request succeeds
DeleteFromVectorDb(userId, file, ok) ==
    /\ IF NoIdentifier(file)
       THEN /\ lastOp' = [op |-> "delete", arg |-> file, requests |-> <<>>,
                          outcome |-> "threw", value |-> 0,
                          error |-> NoIdentifierError]
            /\ UNCHANGED points
       ELSE /\ lastOp' = [op |-> "delete", arg |-> file, requests |-> <<"delete">>,
                          outcome |-> IF ok THEN "returned" ELSE "threw",
                          value |-> IF ok THEN 1 ELSE 0,
                          error |-> IF ok THEN "" ELSE "provider error"]
            /\ points' = IF ok THEN ClientDelete(points, DeleteFilter(file)) ELSE points
    /\ UNCHANGED <<sessionVars, now, embedVars, nextUuid>>

\* the files deleteFromVectorDb can be called with: name and url are optional
DeleteArgs ==
    UNION {{f, [f EXCEPT !.name = <<>>], [f EXCEPT !.url = ""],
            [f EXCEPT !.name = <<>>, !.url = ""]} : f \in Files}

InitStore ==
    /\ points = {}
    /\ nextUuid = 0
    /\ lastOp = [op |-> "none", arg |-> <<>>, requests |-> <<>>, outcome |-> "none",
                 value |-> 0, error |-> ""]

Init ==
    /\ InitSessions
    /\ InitEmbed
    /\ InitStore

\* a run of embedDocument for a user of U, a file of F and a number of chunks of N
NextRun(U, F, N) ==
    \/ \E d \in Docs, u \in U, f \in F, n \in N : EmbedDocument(d, u, f, n)
    \/ \E d \in Docs : Dispatch(d)
    \/ \E d \in Docs, i \in Chunks : ChunkSucceeds(d, i)
    \/ \E d \in Docs, i \in Chunks, e \in ErrorMessages : ChunkFails(d, i, e)
    \/ \E d \in Docs, i \in Chunks : ChunkTimesOut(d, i)
    \/ \E d \in Docs : ReservoirRefresh(d)
    \/ \E d \in Docs : EmbedDocumentReturns(d)
    \/ Tick

\* a run of embedDocument for the file of the non-ASCII name
NextEmbed == NextRun(Users, {FileA}, 0..NChunks)

NextStore ==
    \/ \E u \in Users, f \in Files, idxs \in IndexLists, ok \in BOOLEAN :
          UpsertDocument(u, Embeddings(u, f, idxs), ok)
    \/ \E u \in Users, f \in DeleteArgs, ok \in BOOLEAN : DeleteFromVectorDb(u, f, ok)

\* a retrieval request of S up to the return of its embedMessage call
NextMessage(S) ==
    \/ \E s \in S, u \in Users \cup {""}, m \in Messages \cup {""} : GET(s, u, m)
    \/ \E s \in S, e \in {"Invalid user", "db error"} : ValidateUserFail(s, e)
    \/ \E s \in S : ValidateUserOk(s)
    \/ \E s \in S : EmbedMessageOk(s)
    \/ \E s \in S, e \in ErrorMessages : EmbedMessageFail(s, e)

NextRetrieval ==
    \/ NextMessage(Sessions)
    \/ \E s \in Sessions, p \in Providers : ProviderResolved(s, p)
    \/ \E s \in Sessions, e \in ErrorMessages : ProviderFails(s, e)
    \/ \E s \in Sessions, ctx \in Contexts : QueryReturns(s, ctx)
    \/ \E s \in Sessions, e \in ErrorMessages \cup {NotImplemented} : QueryFails(s, e)
    \/ \E s \in Sessions : RerankReturns(s)
    \/ \E s \in Sessions, e \in ErrorMessages : RerankFails(s, e)
    \/ \E s \in Sessions : SettleStream(s)

\* the retrieval requests alone (route.ts)
SpecRetrieval == Init /\ [][NextRetrieval]_vars

\* a step of request s after GET: an awaited call of s settles (it returns or
\* throws), or the callbacks on the promise of retrieveContext run
Progress(s) ==
    \/ \E e \in {"Invalid user", "db error"} : ValidateUserFail(s, e)
    \/ ValidateUserOk(s)
    \/ EmbedMessageOk(s)
    \/ \E e \in ErrorMessages : EmbedMessageFail(s, e)
    \/ \E p \in Providers : ProviderResolved(s, p)
    \/ \E e \in ErrorMessages : ProviderFails(s, e)
    \/ \E ctx \in Contexts : QueryReturns(s, ctx)
    \/ \E e \in ErrorMessages \cup {NotImplemented} : QueryFails(s, e)
    \/ RerankReturns(s)
    \/ \E e \in ErrorMessages : RerankFails(s, e)
    \/ SettleStream(s)

\* the retrieval requests when every awaited call settles and the event loop
\* runs every callback that is ready
SpecRetrievalLive == SpecRetrieval /\ \A s \in Sessions : WF_vars(Progress(s))

Next == NextRetrieval \/ NextEmbed \/ NextStore

\* the whole program
Spec == Init /\ [][Next]_vars

\* one embedDocument run alone (openai.ts)
SpecEmbed == Init /\ [][NextEmbed]_vars

\* a step of a run that the code and its timers take by themselves: the
\* limiter dispatches, a timer fires (the timer of a chunk, the refresh of the
\* reservoir), the clock advances, the settled results are collected
RunProgress ==
    \/ \E d \in Docs : Dispatch(d)
    \/ \E d \in Docs, i \in Chunks : ChunkTimesOut(d, i)
    \/ \E d \in Docs : ReservoirRefresh(d)
    \/ \E d \in Docs : EmbedDocumentReturns(d)
    \/ Tick

\* the run of an empty document and of a document of NChunks chunks when the
\* event loop runs what is ready and time passes (up to MaxTime); no answer of
\* the embedding provider is assumed
SpecEmbedLive ==
    Init /\ [][NextRun(Users, {FileA}, {0, NChunks})]_vars /\ WF_vars(RunProgress)

\* the vector store under upserts and deletes
SpecStore == Init /\ [][NextStore]_vars

\* the embedding service (openai.ts): an embedDocument run of MaxConcurrent + 1
\* chunks and, concurrently, the embedMessage call of one retrieval request
SpecService ==
    Init /\ [][NextRun(Users, {FileA}, {MaxConcurrent + 1}) \/ NextMessage({1})]_vars


(***************************************************************************)
(* Properties of the retrieval session                                     *)
(***************************************************************************)
Statuses(s) == [i \in 1..Len(events[s]) |-> events[s][i].status]

CountStatus(s, st) == Cardinality({i \in 1..Len(events[s]) : events[s][i].status = st})

IsPrefix(a, b) == Len(a) <= Len(b) /\ \A i \in 1..Len(a) : a[i] = b[i]

\* retrieveContext has run to its end
Ended(s) == promise[s] \in {"resolved", "rejected"}

\* C1: in every retrieval session, on every path, 'Done' is written exactly
\* once (never twice, and once when retrieveContext has ended) and no event is
\* written after it.
C1_DoneOnceAndLast ==
    \A s \in Sessions :
        /\ CountStatus(s, "Done") <= 1
        /\ \A i \in 1..Len(events[s]) :
              events[s][i].status = "Done" => i = Len(events[s])
        /\ Ended(s) <=> CountStatus(s, "Done") = 1
        /\ pc[s] = "finished" => CountStatus(s, "Done") = 1

\* two sessions have finished, one with reranked context and one after a failure
C1_Witness ==
    \E s, t \in Sessions :
        /\ pc[s] = "finished" /\ failedAt[s] = "none"
        /\ CountStatus(s, "Reranking complete") = 1
        /\ pc[t] = "finished" /\ failedAt[t] # "none"

\* the status events of the stages completed before stage k
StagesBefore(k) ==
    CASE k = "embedding" -> <<"Retrieving context">>
      [] k = "resolving" -> <<"Retrieving context", "Embedding complete">>
      [] k = "querying"  -> <<"Retrieving context", "Embedding complete">>
      [] k = "reranking" -> <<"Retrieving context", "Embedding complete", "Query complete">>

\* C2: a session that fails at stage K has emitted exactly the events of the
\* stages completed before K, then one 'Error' carrying the failure message,
\* then 'Done'.
C2_FailureSequence ==
    \A s \in Sessions :
        failedAt[s] # "none" =>
            /\ Statuses(s) = StagesBefore(failedAt[s]) \o <<"Error", "Done">>
            /\ events[s][Len(events[s]) - 1].message =
                   <<"Error retrieving context: ", failure[s]>>

\* every stage has failed in some session
C2_Witness ==
    /\ \E s \in Sessions : failedAt[s] = "reranking" /\ pc[s] = "finished"
    /\ \E s \in Sessions : failedAt[s] = "embedding" /\ pc[s] = "finished"

HappySequence ==
    <<"Retrieving context", "Embedding complete", "Query complete",
      "Reranking complete", "Done">>

NoContextSequence ==
    <<"Retrieving context", "Embedding complete", "Query complete",
      "No context", "Done">>

\* the query of s has returned
Queried(s) == CountStatus(s, "Query complete") > 0

\* C3: a session whose embedding, query (non-empty context) and reranking
\* succeed emits exactly Retrieving context, Embedding complete, Query complete,
\* Reranking complete, Done, in this order; while it runs, what it has emitted is
\* a prefix of that sequence.
C3_HappySequence ==
    \A s \in Sessions :
        (Queried(s) /\ Len(context[s]) > 0 /\ failedAt[s] = "none") =>
            /\ IsPrefix(Statuses(s), HappySequence)
            /\ Ended(s) => Statuses(s) = HappySequence

C3_Witness ==
    \E s \in Sessions :
        /\ pc[s] = "finished" /\ failedAt[s] = "none"
        /\ Len(context[s]) = 2 /\ Statuses(s) = HappySequence

\* C4: a session whose embedding and query succeed and whose query returns an
\* empty context emits exactly Retrieving context, Embedding complete, Query
\* complete, No context, Done, and no Error.
C4_NoContextSequence ==
    \A s \in Sessions :
        (Queried(s) /\ Len(context[s]) = 0) =>
            /\ Statuses(s) = NoContextSequence
            /\ CountStatus(s, "Error") = 0
            /\ CountStatus(s, "Reranking complete") = 0
            /\ failedAt[s] = "none"

C4_Witness ==
    \E s \in Sessions :
        pc[s] = "finished" /\ Queried(s) /\ Len(context[s]) = 0

\* C5: no failure escapes retrieveContext: its promise is never rejected, the
\* stream is never errored, controller.close is called at most once, only after
\* 'Done' was enqueued, and exactly once when the session has finished.
C5_StreamClosedNormally ==
    \A s \in Sessions :
        /\ promise[s] # "rejected"
        /\ stream[s] # "errored"
        /\ closeCalls[s] <= 1
        /\ closeCalls[s] = 1 =>
              (stream[s] = "closed" /\ events[s][Len(events[s])].status = "Done")
        /\ pc[s] = "finished" => (stream[s] = "closed" /\ closeCalls[s] = 1)
        /\ (failedAt[s] # "none") => promise[s] = "resolved"

\* a session that failed has closed its stream
C5_Witness ==
    \E s \in Sessions :
        /\ failedAt[s] = "querying" /\ stream[s] = "closed" /\ closeCalls[s] = 1

(***************************************************************************)
(* Properties of the embedDocument run and its limiter                     *)
(***************************************************************************)
RangeOf(seq) == {seq[k] : k \in 1..Len(seq)}

\* C6: whatever subset F of the N chunks fails, embedDocument does not raise
\* and returns exactly the N - |F| embeddings of the chunks outside F; every
\* chunk was dispatched, and a failed chunk holds no slot of the limiter against
\* a queued sibling.
C6_PartialFailure ==
    \A d \in Docs :
        /\ docPc[d] # "threw"
        /\ docPc[d] = "returned" =>
              /\ Len(returned[d]) = nChunks[d] - Cardinality(InState(d, "rejected"))
              /\ RangeOf(returned[d]) = (1..nChunks[d]) \ InState(d, "rejected")
              /\ Len(dispatchLog[d]) = nChunks[d]
        /\ ( /\ docPc[d] = "running"
             /\ InState(d, "queued") # {}
             /\ reservoir[d] > 0
             /\ Cardinality(InState(d, "running")) < MaxConcurrent
             /\ (dispatchLog[d] = <<>> \/ now >= dispatchLog[d][Len(dispatchLog[d])] + MinTime) )
           => ENABLED Dispatch(d)

\* a run has returned in which a chunk timed out, a chunk got a provider error
\* and a later chunk succeeded
C6_Witness ==
    \E d \in Docs :
        /\ docPc[d] = "returned" /\ nChunks[d] = NChunks
        /\ reason[d][1] = "AbortError" /\ chunk[d][2] = "rejected"
        /\ reason[d][2] \in ErrorMessages
        /\ returned[d] = <<3, 4>>

\* number of dispatches of run d in the window [t, t + RefreshInterval)
DispatchesIn(d, t) ==
    Cardinality({k \in 1..Len(dispatchLog[d]) :
                    t <= dispatchLog[d][k] /\ dispatchLog[d][k] < t + RefreshInterval})

\* C7: when more calls are scheduled on the limiter than its reservoir holds, no
\* rolling window of one refresh interval contains more dispatches than the
\* reservoir, windows that straddle a refill included.
C7_RollingWindow ==
    \A d \in Docs : \A t \in 0..MaxTime : DispatchesIn(d, t) <= Reservoir

\* more chunks than the reservoir were dispatched, and a window that straddles
\* the refill is full
C7_Witness ==
    \E d \in Docs :
        /\ Len(dispatchLog[d]) > Reservoir
        /\ \E t \in 0..MaxTime :
              /\ t < lastRefresh[d] /\ lastRefresh[d] < t + RefreshInterval
              /\ DispatchesIn(d, t) = Reservoir
              /\ \E k \in 1..Len(dispatchLog[d]) :
                    t <= dispatchLog[d][k] /\ dispatchLog[d][k] < lastRefresh[d]
              /\ \E k \in 1..Len(dispatchLog[d]) :
                    lastRefresh[d] <= dispatchLog[d][k]
                    /\ dispatchLog[d][k] < t + RefreshInterval

\* C8: a chunk call is dispatched only in a state where the reservoir is above
\* zero, fewer than maxConcurrent calls are in flight and minTime has elapsed
\* since the previous dispatch; in every state at most maxConcurrent calls are
\* in flight and the reservoir is not negative.
C8_DispatchGate ==
    /\ [](\A d \in Docs :
            /\ Cardinality(InState(d, "running")) <= MaxConcurrent
            /\ reservoir[d] >= 0)
    /\ [][\A d \in Docs :
            Len(dispatchLog'[d]) > Len(dispatchLog[d]) =>
                /\ reservoir[d] > 0
                /\ reservoir'[d] = reservoir[d] - 1
                /\ Cardinality(InState(d, "running")) < MaxConcurrent
                /\ (dispatchLog[d] # <<>> =>
                       now >= dispatchLog[d][Len(dispatchLog[d])] + MinTime)]_vars

\* the limiter holds back a queued chunk: the ceiling is reached and the
\* reservoir is empty
C8_Witness ==
    \E d \in Docs :
        /\ Cardinality(InState(d, "running")) = MaxConcurrent
        /\ reservoir[d] = 0
        /\ InState(d, "queued") # {}

(***************************************************************************)
(* Properties of the embedding service as a whole                          *)
(***************************************************************************)
\* the retrieval requests whose embedMessage call is in flight
MessageCallsInFlight == {s \in Sessions : pc[s] = "embedding"}

RECURSIVE SumInFlight(_)
SumInFlight(D) ==
    IF D = {} THEN 0
    ELSE LET d == CHOOSE x \in D : TRUE
         IN Cardinality(InFlight(d)) + SumInFlight(D \ {d})

\* every embedding call in flight, of embedMessage and of embedChunk
TotalInFlight == SumInFlight(Docs) + Cardinality(MessageCallsInFlight)

\* C9: every embedding call passes through the same limiter, so the calls of
\* embedMessage and of embedDocument together never exceed the concurrency
\* ceiling.
C9_OneLimiter == TotalInFlight <= MaxConcurrent

\* C10: every embedding call, of embedChunk and of embedMessage, carries its
\* own timeout: no call is still in flight after its timeout has expired.
C10_EveryCallTimesOut ==
    /\ \A d \in Docs : \A i \in Chunks :
          chunk[d][i] = "running" => (deadline[d][i] # -1 /\ now <= deadline[d][i])
    /\ \A s \in Sessions :
          pc[s] = "embedding" => now <= msgStart[s] + ChunkTimeout

\* C11: the timeout of one chunk call affects only that call: the step in which
\* a timer fires and aborts its request changes the state, the timer and the
\* error of no sibling, and a sibling that is in flight can still succeed.
C11_TimeoutIsolated ==
    /\ [][\A d \in Docs : \A i \in Chunks :
            (chunk[d][i] = "running" /\ chunk'[d][i] = "rejected"
                                    /\ reason'[d][i] = "AbortError") =>
                \A j \in Chunks \ {i} :
                    /\ chunk'[d][j] = chunk[d][j]
                    /\ deadline'[d][j] = deadline[d][j]
                    /\ reason'[d][j] = reason[d][j]]_vars
    /\ [](\A d \in Docs : \A j \in Chunks :
            chunk[d][j] = "running" => ENABLED ChunkSucceeds(d, j))

\* chunk 1 has timed out while chunk 2 was in flight and chunk 4 queued; chunk
\* 2 is still in flight
C11_Witness ==
    \E d \in Docs :
        /\ chunk[d][1] = "rejected" /\ reason[d][1] = "AbortError"
        /\ chunk[d][2] = "running" /\ deadline[d][2] > now
        /\ chunk[d][4] = "queued"

\* C12: the query of the Qdrant provider fails with the not-implemented error
\* and never returns a result: a session that uses it emits neither 'Query
\* complete' nor 'No context', never calls rerank, and ends with 'Error'
\* carrying that error.
C12_QdrantNotImplemented ==
    \A s \in Sessions :
        provider[s] = "qdrant" =>
            /\ CountStatus(s, "Query complete") = 0
            /\ CountStatus(s, "No context") = 0
            /\ rerankCalls[s] = <<>>
            /\ pc[s] \in {"querying", "settled", "finished"}
            /\ Ended(s) =>
                  /\ failedAt[s] = "querying"
                  /\ failure[s] = NotImplemented
                  /\ Statuses(s) = <<"Retrieving context", "Embedding complete",
                                     "Error", "Done">>

\* a session on the Qdrant provider has finished
C12_Witness ==
    \E s \in Sessions :
        /\ provider[s] = "qdrant" /\ pc[s] = "finished"
        /\ events[s][3].message = <<"Error retrieving context: ", NotImplemented>>

(***************************************************************************)
(* The text of an id                                                       *)
(***************************************************************************)
\* the characters of str that are ASCII
AsciiOnly(str) == SelectSeq(str, LAMBDA c : c \in 0..127)

\* the text name' # key #, for name' the ASCII characters of name
IdPrefix(name, key) == AsciiOnly(name) \o <<35>> \o key \o <<35>>

\* the text name' # key # n, for n < 10
IdText(name, key, n) == IdPrefix(name, key) \o <<48 + n>>

(***************************************************************************)
(* Properties of the vector store                                          *)
(***************************************************************************)
\* C13: upsert is overwrite-safe: after any number of upserts of embeddings
\* that share their embedding ids the store holds at most one point per
\* embedding id.
C13_OverwriteSafe ==
    \A p, q \in points : p.payload.embeddingId = q.payload.embeddingId => p = q

\* C14: a delete for a file that has neither a name nor a url fails with the
\* validation error before any request to the vector store is made, and leaves
\* the store unchanged.
C14_DeleteNeedsIdentifier ==
    [][(/\ lastOp'.op = "delete"
        /\ lastOp'.arg.name = <<>>
        /\ lastOp'.arg.url = "")
       => /\ lastOp'.outcome = "threw"
          /\ lastOp'.error = "No filename or URL provided for deletion."
          /\ lastOp'.requests = <<>>
          /\ points' = points]_vars

C14_Witness ==
    /\ points # {}
    /\ lastOp.op = "delete"
    /\ lastOp.arg.name = <<>>
    /\ lastOp.arg.url = ""
    /\ lastOp.outcome = "threw"

\* the file name and the url a stored point carries (in its citation and
\* under the url key of its metadata)
PointName(p) == p.payload.metadata.citation.value[2]
PointUrl(p) == p.payload.metadata.url.value

\* C15: delete treats name and url as independent optional filters: after a
\* delete with only the name set no point of that name is left, whatever its
\* url, and after a delete with only the url set no point of that url is left.
C15_IndependentFilters ==
    (lastOp.op = "delete" /\ lastOp.outcome = "returned") =>
        /\ (lastOp.arg.name # <<>> /\ lastOp.arg.url = "") =>
               \A p \in points : PointName(p) # lastOp.arg.name
        /\ (lastOp.arg.name = <<>> /\ lastOp.arg.url # "") =>
               \A p \in points : PointUrl(p) # lastOp.arg.url

\* C19: every point of the store has, in the metadata of its payload, the
\* text, the userId, the url and the citation that embedDocument computed for
\* the chunk it comes from, also when the chunk's own metadata has keys of
\* these names.
C19_PayloadKeepsSource ==
    \A p \in points :
        \E u \in Users, f \in Files, i \in Chunks :
            /\ p.payload.embeddingId = IdText(f.name, f.key, i)
            /\ {"text", "userId", "url", "citation"} \subseteq DOMAIN p.payload.metadata
            /\ p.payload.metadata.text = Prim(ChunkInput(i - 1).text)
            /\ p.payload.metadata.userId = Prim(u)
            /\ p.payload.metadata.url = Prim(f.url)
            /\ p.payload.metadata.citation = Prim(citation(f, ChunkInput(i - 1)))
            /\ p.payload.metadata.citation.value[2] = f.name
            /\ p.payload.metadata.citation.value[5] = f.url

\* the store holds a point of a chunk whose metadata has the keys text, userId,
\* url and citation
C19_Witness ==
    \E p \in points :
        /\ p.payload.embeddingId = <<114, 112, 35, 107, 49, 35, 50>>
        /\ ChunkInput(1).metadata.userId = Prim("intruder")
        /\ p.payload.metadata.userId = Prim("u1")
        /\ p.payload.metadata.filetype = Prim("txt")

(***************************************************************************)
(* Properties of the embeddings of a run                                   *)
(***************************************************************************)
\* the ids of the embeddings a run returned, in the order of the result
ReturnedIds(d) ==
    [k \in 1..Len(returned[d]) |->
        Embeddings(docUser[d], docFile[d], returned[d])[k].id]

\* C16: the id of a chunk embedding is toAscii(file.name) # file.key # (index+1):
\* the ids a run has produced are those of the chunks that succeeded, a set
\* that the file and the chunks determine whatever the order the calls
\* completed in, and no two chunks of a run get the same id.
C16_StableIds ==
    \A d \in Docs :
        LET prefix == IdPrefix(docFile[d].name, docFile[d].key)
        IN /\ RangeOf(chunkIdList[d]) =
                  {prefix \o <<48 + i>> : i \in InState(d, "fulfilled")}
           /\ Len(chunkIdList[d]) = Cardinality(InState(d, "fulfilled"))
           /\ docPc[d] = "returned" =>
                  /\ RangeOf(ReturnedIds(d)) = RangeOf(chunkIdList[d])
                  /\ \A j, k \in 1..Len(returned[d]) :
                         j # k => ReturnedIds(d)[j] # ReturnedIds(d)[k]
                  /\ \A k \in 1..Len(returned[d]) :
                         ReturnedIds(d)[k] = prefix \o <<48 + returned[d][k]>>

\* a run for the file of the non-ASCII name returned after chunk 2 completed
\* before chunk 1
C16_Witness ==
    \E d \in Docs :
        /\ docPc[d] = "returned"
        /\ docFile[d] = FileA
        /\ Len(chunkIdList[d]) >= 2
        /\ chunkIdList[d][1] = <<114, 112, 35, 107, 49, 35, 50>>
        /\ chunkIdList[d][2] = <<114, 112, 35, 107, 49, 35, 49>>

(***************************************************************************)
(* Properties of the request handler                                       *)
(***************************************************************************)
\* C17: a retrieval request without userId or without message is answered
\* with status 400 at once: no collaborator (user lookup, embedding, vector
\* store, reranking) is called, no stream is opened, no event is emitted.
C17_MissingInputRejected ==
    \A s \in Sessions :
        (pc[s] # "idle" /\ (reqUserId[s] = "" \/ message[s] = "")) =>
            /\ pc[s] = "answered"
            /\ response[s] = "400"
            /\ calls[s] = <<>>
            /\ rerankCalls[s] = <<>>
            /\ stream[s] = "none"
            /\ promise[s] = "none"
            /\ events[s] = <<>>

\* one request came with a userId and no message, another one with a message
\* and no userId
C17_Witness ==
    \E s, r \in Sessions :
        /\ pc[s] = "answered" /\ reqUserId[s] # "" /\ message[s] = ""
        /\ pc[r] = "answered" /\ reqUserId[r] = "" /\ message[r] # ""

(***************************************************************************)
(* Properties of the error log of a run                                    *)
(***************************************************************************)
\* the positions of the error log whose record is about chunk i and starts
\* with one of the texts in heads
RecordsOf(d, i, heads) ==
    {k \in 1..Len(errorLog[d]) : errorLog[d][k][1] \in heads /\ errorLog[d][k][2] = i}

\* the texts the records of embedChunk start with, and the text the records
\* of the loop over the results start with
CallHeads == {"Embedding request for chunk ", "Failed to embed chunk "}
LoopHeads == {"Embedding failed for chunk "}

\* C18 as stated: for a batch in which exactly k chunks fail, exactly k
\* failures are logged, one per failed chunk.
C18_OneRecordPerFailure ==
    \A d \in Docs :
        docPc[d] = "returned" => Len(errorLog[d]) = Cardinality(InState(d, "rejected"))

\* C18 amended: every failed chunk is logged twice and no successful chunk is
\* logged.  The failing call logs one record when it fails, with the 1-based
\* index of its chunk and the error message (or that the request timed out);
\* the loop over the results logs one more record for it, with the 1-based
\* index and the failure reason, when the run returns: 2k records for k
\* failed chunks.
C18_TwoRecordsPerFailure ==
    \A d \in Docs :
        /\ \A k \in 1..Len(errorLog[d]) :
               /\ errorLog[d][k][1] \in CallHeads \cup LoopHeads
               /\ errorLog[d][k][2] \in InState(d, "rejected")
        /\ \A i \in InState(d, "rejected") :
               /\ Cardinality(RecordsOf(d, i, CallHeads)) = 1
               /\ \A k \in RecordsOf(d, i, CallHeads) :
                      IF reason[d][i] = "AbortError"
                      THEN errorLog[d][k] = <<"Embedding request for chunk ", i, " timed out.">>
                      ELSE errorLog[d][k][6] = reason[d][i]
               /\ Cardinality(RecordsOf(d, i, LoopHeads)) =
                      IF docPc[d] = "returned" THEN 1 ELSE 0
               /\ \A k \in RecordsOf(d, i, LoopHeads) : errorLog[d][k][4] = reason[d][i]
        /\ docPc[d] = "returned" =>
               Len(errorLog[d]) = 2 * Cardinality(InState(d, "rejected"))

\* a run returned in which one chunk timed out, one failed with an error of
\* the provider and one succeeded
C18_Witness ==
    \E d \in Docs :
        /\ docPc[d] = "returned"
        /\ \E i, j \in InState(d, "rejected") :
               reason[d][i] = "AbortError" /\ reason[d][j] = "provider error"
        /\ Cardinality(InState(d, "rejected")) = 2
        /\ InState(d, "fulfilled") # {}
        /\ Len(errorLog[d]) = 4

(***************************************************************************)
(* Properties of the order of the result                                   *)
(***************************************************************************)
\* C20: the embeddings embedDocument returns are in increasing order of chunk
\* index, whatever the order the calls were dispatched and completed in.
C20_OrderPreserving ==
    \A d \in Docs :
        docPc[d] = "returned" =>
            /\ \A j, k \in 1..Len(returned[d]) : j < k => returned[d][j] < returned[d][k]
            /\ \A k \in 1..Len(returned[d]) - 1 :
                   \* the last character of an id is the number of its chunk
                   ReturnedIds(d)[k][Len(ReturnedIds(d)[k])]
                       < ReturnedIds(d)[k + 1][Len(ReturnedIds(d)[k + 1])]

\* a run returned the embeddings of chunks 1, 2 and 3 in this order after the
\* call of chunk 2 completed first and that of chunk 1 last
C20_Witness ==
    \E d \in Docs :
        /\ docPc[d] = "returned"
        /\ returned[d] = <<1, 2, 3>>
        /\ chunkIdList[d] = <<IdText(docFile[d].name, docFile[d].key, 2),
                              IdText(docFile[d].name, docFile[d].key, 3),
                              IdText(docFile[d].name, docFile[d].key, 1)>>

(***************************************************************************)
(* Properties of concurrent sessions                                       *)
(***************************************************************************)
\* the events of the stream of s that name a message name the message of s
OwnEvents(s) ==
    \A i \in 1..Len(events[s]) :
        events[s][i].status \in {"Retrieving context", "Embedding complete", "Done"}
            => events[s][i].message[Len(events[s][i].message)] = message[s]

\* the status sequences of a complete session
CompleteSequences ==
    {HappySequence, NoContextSequence}
        \cup {StagesBefore(k) \o <<"Error", "Done">> :
                 k \in {"embedding", "resolving", "querying", "reranking"}}

\* C21: sessions are independent.  The stream of a session holds events of
\* that session only, in a sequence valid for the session alone, and a step of
\* one session (a failure included) leaves the events, the stream and the
\* outcome of every other session as they are.
C21_SessionsIndependent ==
    /\ [](\A s \in Sessions :
             /\ OwnEvents(s)
             /\ \E q \in CompleteSequences : IsPrefix(Statuses(s), q)
             /\ CountStatus(s, "Error") = IF failedAt[s] = "none" THEN 0 ELSE 1)
    /\ [][\A s, r \in Sessions :
             (s # r /\ pc'[s] # pc[s]) =>
                 /\ events'[r] = events[r]
                 /\ stream'[r] = stream[r]
                 /\ promise'[r] = promise[r]
                 /\ failedAt'[r] = failedAt[r]
                 /\ response'[r] = response[r]]_vars

\* of two sessions with different messages one failed and the other one
\* completed with the events of the success path
C21_Witness ==
    \E s, r \in Sessions :
        /\ message[s] = "m1" /\ message[r] = "m2"
        /\ pc[s] = "finished" /\ failedAt[s] = "embedding"
        /\ pc[r] = "finished" /\ Statuses(r) = HappySequence

\* the stages of a session whose stream is open
Stages == {"embedding", "resolving", "querying", "reranking"}

C23_ReturnsCounts ==
    [][lastOp'.outcome = "returned" =>
          /\ lastOp'.op = "delete" =>
                 lastOp'.value = Cardinality(points) - Cardinality(points')
          /\ lastOp'.op = "upsert" =>
                 /\ lastOp'.value = Len(lastOp'.arg)
                 /\ lastOp'.value = Cardinality(points') - Cardinality(points)]_vars

(***************************************************************************)
(* Properties of the stored metadata                                       *)
(***************************************************************************)
\* the keys embedChunk sets itself
ComputedKeys == {"text", "userId", "url", "citation"}

\* value is an array of strings
IsStringArray(value) ==
    /\ value.kind = "array"
    /\ \A n \in 1..Len(value.items) : value.items[n].kind = "primitive"

\* value is the array of the strings key:JSON of the entries of the object or
\* array original
IsStringified(value, original) ==
    /\ IsStringArray(value)
    /\ IF original.kind = "object"
       THEN /\ Len(value.items) = Len(original.entries)
            /\ \A n \in 1..Len(value.items) :
                   value.items[n].value =
                       <<original.entries[n][1], ":", <<"JSON", original.entries[n][2]>>>>
       ELSE /\ Len(value.items) = Len(original.items)
            /\ \A n \in 1..Len(value.items) :
                   value.items[n].value = <<n - 1, ":", <<"JSON", original.items[n]>>>>

\* the metadata md stored for a chunk of metadata c is flat, and has the values
\* of c under the keys of K: a primitive unchanged, an object stringified
FlatCopy(md, c, K) ==
    /\ DOMAIN md = DOMAIN c \cup ComputedKeys
    /\ \A k \in DOMAIN md : md[k].kind = "primitive" \/ IsStringArray(md[k])
    /\ \A k \in K :
           IF c[k].kind = "primitive" THEN md[k] = c[k] ELSE IsStringified(md[k], c[k])

\* C24 as stated: the stored metadata is flat; every primitive value of the
\* chunk metadata is there unchanged under its key and every nested object
\* value is there as stringified key/value pairs.
C24_FlatMetadata ==
    \A p \in points : \A f \in Files, i \in Chunks :
        p.payload.embeddingId = IdText(f.name, f.key, i) =>
            FlatCopy(p.payload.metadata, ChunkInput(i - 1).metadata,
                     DOMAIN ChunkInput(i - 1).metadata)

\* C24 amended: the same for every key of the chunk metadata other than text,
\* userId, url and citation; under these four keys the stored value is the one
\* embedChunk computed, a primitive, whatever the chunk metadata has there.
C24_FlatMetadataButComputed ==
    \A p \in points : \A f \in Files, i \in Chunks :
        p.payload.embeddingId = IdText(f.name, f.key, i) =>
            /\ FlatCopy(p.payload.metadata, ChunkInput(i - 1).metadata,
                        DOMAIN ChunkInput(i - 1).metadata \ ComputedKeys)
            /\ \A k \in ComputedKeys : p.payload.metadata[k].kind = "primitive"
            /\ p.payload.metadata.text.value = ChunkInput(i - 1).text

\* the store holds a point of a chunk whose metadata has a primitive, an array
\* and an object that has an object inside
C24_Witness ==
    \E p \in points :
        /\ p.payload.metadata.page_number = Prim(3)
        /\ p.payload.metadata.languages =
               Arr(<<Prim(<<0, ":", <<"JSON", Prim("eng")>>>>)>>)
        /\ Len(p.payload.metadata.coordinates.items) = 2
        /\ p.payload.metadata.coordinates.items[2] =
               Prim(<<"box", ":", <<"JSON", Obj(<< <<"w", Prim(10)>> >>)>>>>)

(***************************************************************************)
(* Properties of delete after upsert                                       *)
(***************************************************************************)
\* C25: a delete for a file with its name and its url, that returns, removes
\* from the store every point that an upsert wrote for that file and no point
\* of any other file.
C25_DeleteMatchesUpsert ==
    [][(/\ lastOp'.op = "delete"
        /\ lastOp'.outcome = "returned"
        /\ lastOp'.arg.name # <<>>
        /\ lastOp'.arg.url # "")
       => points' = {p \in points : ~(/\ PointName(p) = lastOp'.arg.name
                                       /\ PointUrl(p) = lastOp'.arg.url)}]_vars

(***************************************************************************)
(* Properties of the call of rerank                                        *)
(***************************************************************************)
\* C26: in a session rerank is called at most once, only after the query
\* returned a context that is not empty, with exactly the passages the query
\* returned and the message of the request; it is not called on the path of no
\* context nor after a failure of the embedding or of the query.
C26_RerankOnce ==
    \A s \in Sessions :
        /\ Len(rerankCalls[s]) <= 1
        /\ rerankCalls[s] # <<>> =>
               /\ Queried(s)
               /\ context[s] # <<>>
               /\ rerankCalls[s][1].context = context[s]
               /\ rerankCalls[s][1].message = message[s]
               /\ failedAt[s] \in {"none", "reranking"}
        /\ (Queried(s) /\ context[s] # <<>>) => Len(rerankCalls[s]) = 1
        /\ CountStatus(s, "No context") > 0 => rerankCalls[s] = <<>>
        /\ failedAt[s] \in {"embedding", "resolving", "querying"} => rerankCalls[s] = <<>>

\* one session called rerank with the two passages of its query; another one
\* ended on the path of no context
C26_Witness ==
    \E s, r \in Sessions :
        /\ pc[s] = "finished"
        /\ rerankCalls[s] = <<[message |-> message[s], context |-> <<"p1", "p2">>]>>
        /\ pc[r] = "finished" /\ CountStatus(r, "No context") = 1

(***************************************************************************)
(* Properties of the timer of a chunk                                      *)
(***************************************************************************)
\* C27: the timeout of a chunk call runs from the dispatch of the call, not
\* from its scheduling.  A queued chunk has no timer, however long it waits; a
\* chunk in flight has the timer of its dispatch time plus the timeout; a chunk
\* is aborted no earlier than that; a call that has completed (fulfilled or
\* rejected) has its timer cancelled and is never aborted afterwards.  (The
\* limiter dispatches in the order of the chunks: dispatchLog[d][i] is the time
\* chunk i was dispatched at.)
C27_TimerFromDispatch ==
    /\ [](\A d \in Docs : \A i \in Chunks :
             /\ chunk[d][i] \in {"none", "queued", "fulfilled", "rejected"}
                    => deadline[d][i] = -1
             /\ chunk[d][i] = "running"
                    => deadline[d][i] = dispatchLog[d][i] + ChunkTimeout
             /\ (chunk[d][i] = "rejected" /\ reason[d][i] = "AbortError")
                    => now >= dispatchLog[d][i] + ChunkTimeout)
    /\ [][\A d \in Docs : \A i \in Chunks :
             /\ chunk[d][i] \in {"fulfilled", "rejected"}
                    => (chunk'[d][i] = chunk[d][i] /\ reason'[d][i] = reason[d][i])
             /\ chunk[d][i] = "queued" => chunk'[d][i] \in {"queued", "running"}]_vars

\* chunk 4 waited in the queue for longer than the timeout (for the refill of
\* the reservoir), was then dispatched and succeeded; chunk 1 succeeded and
\* chunk 2 failed before that
C27_Witness ==
    \E d \in Docs :
        /\ chunk[d][4] = "fulfilled"
        /\ dispatchLog[d][4] - dispatchLog[d][1] > ChunkTimeout
        /\ chunk[d][1] = "fulfilled"
        /\ chunk[d][2] = "rejected" /\ reason[d][2] = "provider error"

====
